---- MODULE Spec2Model ----
(***************************************************************************)
(* fix-html-syntax.py: fix_html_file reads one text file into the string   *)
(* `content` and rewrites it by a fixed sequence of passes: entity         *)
(* unescaping, line-break insertion, tag counting (report only), space     *)
(* collapsing, line-by-line re-indentation, and the write of the result.   *)
(* A Python str is modelled as a sequence of one-character strings.        *)
(***************************************************************************)
EXTENDS Integers, Sequences, FiniteSets, TLC

(* ------------------------------------------------------------------ *)
(* Bounds of the input families.                                       *)
(* ------------------------------------------------------------------ *)
MaxAmpChunks == 5
MaxTagChunks == 3
MaxLines == 3

(* ------------------------------------------------------------------ *)
(* String literals of the source.                                      *)
(* ------------------------------------------------------------------ *)
AmpAmp == <<"&", "a", "m", "p", ";", "a", "m", "p", ";">>
Amp == <<"&", "a", "m", "p", ";">>
Ampersand == <<"&">>
NL == "\n"
SP == " "
Whitespace == {" ", "\n", "\t", "\r"}

\* The eight (pattern, replacement) pairs of the re.sub calls, in order.
BreakRules ==
  << << <<">", "<", "/", "d", "i", "v", ">">>,    <<">", "\n", "<", "/", "d", "i", "v", ">">> >>,
     << <<">", "<", "/", "a", ">">>,      <<">", "\n", "<", "/", "a", ">">> >>,
     << <<">", "<", "d", "i", "v">>,      <<">", "\n", "<", "d", "i", "v">> >>,
     << <<">", "<", "a", " ">>,       <<">", "\n", "<", "a", " ">> >>,
     << <<">", "<", "s", "v", "g">>,      <<">", "\n", "<", "s", "v", "g">> >>,
     << <<">", "<", "/", "s", "v", "g", ">">>,    <<">", "\n", "<", "/", "s", "v", "g", ">">> >>,
     << <<">", "<", "b", "u", "t", "t", "o", "n">>,   <<">", "\n", "<", "b", "u", "t", "t", "o", "n">> >>,
     << <<">", "<", "/", "b", "u", "t", "t", "o", "n", ">">>, <<">", "\n", "<", "/", "b", "u", "t", "t", "o", "n", ">">> >> >>

\* The markers of the void-element test of the indentation pass.
VoidTags ==
  { <<"<", "p", "a", "t", "h">>, <<"<", "s", "v", "g">>, <<"<", "i", "n", "p", "u", "t">>, <<"<", "i", "m", "g">>, <<"<", "b", "r">>, <<"<", "h", "r">> }

(* ------------------------------------------------------------------ *)
(* Python's string operations.                                         *)
(* ------------------------------------------------------------------ *)
\* s[i:].startswith(p), i counted from 1
MatchAt(s, p, i) ==
  /\ i + Len(p) - 1 <= Len(s)
  /\ \A k \in 1..Len(p) : s[i + k - 1] = p[k]

\* p in s
Contains(s, p) == \E i \in 1..(Len(s) - Len(p) + 1) : MatchAt(s, p, i)

StartsWith(s, p) == MatchAt(s, p, 1)

EndsWith(s, p) == Len(p) <= Len(s) /\ MatchAt(s, p, Len(s) - Len(p) + 1)

Drop(s, n) == SubSeq(s, n + 1, Len(s))

\* s.replace(old, new) and re.sub(old, new, s) for a literal pattern:
\* the leftmost non-overlapping occurrences, scanned left to right.
RECURSIVE Replace(_, _, _)
Replace(s, old, new) ==
  IF Len(s) < Len(old) THEN s
  ELSE IF MatchAt(s, old, 1) THEN new \o Replace(Drop(s, Len(old)), old, new)
  ELSE <<Head(s)>> \o Replace(Tail(s), old, new)

\* s.count(sub): the number of non-overlapping occurrences.
RECURSIVE Count(_, _)
Count(s, sub) ==
  IF Len(s) < Len(sub) THEN 0
  ELSE IF MatchAt(s, sub, 1) THEN 1 + Count(Drop(s, Len(sub)), sub)
  ELSE Count(Tail(s), sub)

\* The length of the run of spaces s starts with.
RECURSIVE SpaceRun(_)
SpaceRun(s) == IF s # <<>> /\ Head(s) = SP THEN 1 + SpaceRun(Tail(s)) ELSE 0

\* re.sub(r'  +', ' ', s): every maximal run of two or more spaces becomes one.
RECURSIVE CollapseSpaces(_)
CollapseSpaces(s) ==
  IF s = <<>> THEN <<>>
  ELSE IF SpaceRun(s) >= 2 THEN <<SP>> \o CollapseSpaces(Drop(s, SpaceRun(s)))
  ELSE <<Head(s)>> \o CollapseSpaces(Tail(s))

\* s.split('\n'): the pieces between newlines, empty pieces kept.
RECURSIVE SplitFrom(_, _)
SplitFrom(s, cur) ==
  IF s = <<>> THEN <<cur>>
  ELSE IF Head(s) = NL THEN <<cur>> \o SplitFrom(Tail(s), <<>>)
  ELSE SplitFrom(Tail(s), Append(cur, Head(s)))

Split(s) == SplitFrom(s, <<>>)

\* s.lstrip(), s.rstrip(), s.strip()
RECURSIVE LStrip(_)
LStrip(s) == IF s # <<>> /\ Head(s) \in Whitespace THEN LStrip(Tail(s)) ELSE s

RECURSIVE RStrip(_)
RStrip(s) ==
  IF s # <<>> /\ s[Len(s)] \in Whitespace THEN RStrip(SubSeq(s, 1, Len(s) - 1)) ELSE s

Strip(s) == RStrip(LStrip(s))

\* s * n (empty when n <= 0)
RECURSIVE Repeat(_, _)
Repeat(s, n) == IF n <= 0 THEN <<>> ELSE s \o Repeat(s, n - 1)

\* '\n'.join(ls)
RECURSIVE Join(_)
Join(ls) ==
  IF ls = <<>> THEN <<>>
  ELSE IF Len(ls) = 1 THEN ls[1]
  ELSE ls[1] \o <<NL>> \o Join(Tail(ls))

Max(a, b) == IF a >= b THEN a ELSE b

(* ------------------------------------------------------------------ *)
(* The passes of fix_html_file as functions of the content.            *)
(* ------------------------------------------------------------------ *)
\* Faulty variant of line 28: a mistyped pattern that the doubly escaped
\* ampersand never matches.
CollapseAmp_typo(s) == Replace(s, <<"&", "a", "m", "p", ";", "&", "a", "m", "p", ";">>, Amp)

\* line 28
CollapseAmp(s) == Replace(s, AmpAmp, Amp)

\* Faulty variant of line 33: the final replacement is left out.
FinalAmp_skipped(s) == s

\* line 33
FinalAmp(s) == Replace(s, Amp, Ampersand)

\* Faulty variant of lines 26-30: `if` in place of `while`, one pass only.
CollapseLoop_once(s) == IF Contains(s, AmpAmp) THEN CollapseAmp(s) ELSE s

\* lines 26-30: the while loop, with its no-progress break
RECURSIVE CollapseLoop(_)
CollapseLoop(s) ==
  IF Contains(s, AmpAmp)
  THEN LET next == CollapseAmp(s)
       IN  IF next = s THEN next ELSE CollapseLoop(next)
  ELSE s

\* lines 26-33
Unescape(s) == FinalAmp(CollapseLoop(s))

\* lines 39-46: the substitutions k..8 applied in order
RECURSIVE ApplyBreaks(_, _)
ApplyBreaks(s, k) ==
  IF k > Len(BreakRules) THEN s
  ELSE ApplyBreaks(Replace(s, BreakRules[k][1], BreakRules[k][2]), k + 1)

\* Faulty variant of lines 39-46: the first replacement loses the '>'.
LineBreaks_dropsBracket(s) == ApplyBreaks(Replace(s, <<">", "<", "/", "d", "i", "v", ">">>, <<"\n", "<", "/", "d", "i", "v", ">">>), 2)

LineBreaks(s) == ApplyBreaks(s, 1)

\* lines 52-59
TagCounts(s) ==
  [ div_open     |-> Count(s, <<"<", "d", "i", "v">>),
    div_close    |-> Count(s, <<"<", "/", "d", "i", "v", ">">>),
    a_open       |-> Count(s, <<"<", "a", " ">>),
    a_close      |-> Count(s, <<"<", "/", "a", ">">>),
    svg_open     |-> Count(s, <<"<", "s", "v", "g">>),
    svg_close    |-> Count(s, <<"<", "/", "s", "v", "g", ">">>),
    button_open  |-> Count(s, <<"<", "b", "u", "t", "t", "o", "n">>),
    button_close |-> Count(s, <<"<", "/", "b", "u", "t", "t", "o", "n", ">">>) ]

\* lines 62-65: the four marks printed, TRUE for a match
TagReport(c) ==
  << c.div_open = c.div_close, c.a_open = c.a_close,
     c.svg_open = c.svg_close, c.button_open = c.button_close >>

\* Faulty variant of line 85: the decrement without its floor.
EmitLevel_noFloor(line, level) ==
  IF StartsWith(line, <<"<", "/">>) THEN level - 1 ELSE level

\* lines 84-85: the depth a stripped line is emitted at
EmitLevel(line, level) ==
  IF StartsWith(line, <<"<", "/">>) THEN Max(0, level - 1) ELSE level

\* Faulty variant of line 91: the void-element names tested without '<'.
Opens_bareNames(line) ==
  /\ StartsWith(line, <<"<">>)
  /\ ~StartsWith(line, <<"<", "/">>)
  /\ ~EndsWith(line, <<"/", ">">>)
  /\ ~\E name \in { <<"p", "a", "t", "h">>, <<"s", "v", "g">>, <<"i", "n", "p", "u", "t">>, <<"i", "m", "g">>, <<"b", "r">>, <<"h", "r">> } :
        Contains(line, name)

\* Faulty variant of line 91: the self-closing test left out.
Opens_noSelfClosing(line) ==
  /\ StartsWith(line, <<"<">>)
  /\ ~StartsWith(line, <<"<", "/">>)
  /\ ~\E tag \in VoidTags : Contains(line, tag)

\* line 91: the condition of the increment
Opens(line) ==
  /\ StartsWith(line, <<"<">>)
  /\ ~StartsWith(line, <<"<", "/">>)
  /\ ~EndsWith(line, <<"/", ">">>)
  /\ ~\E tag \in VoidTags : Contains(line, tag)

\* lines 84-92: the depth after a stripped, non-empty line
NextLevel(line, level) ==
  IF Opens(line) THEN EmitLevel(line, level) + 1 ELSE EmitLevel(line, level)

\* line 88
Indented(line, level) == Repeat(<<" ", " ">>, EmitLevel(line, level)) \o line

\* lines 78-92 over the lines ls, from depth level
RECURSIVE IndentLines(_, _)
IndentLines(ls, level) ==
  IF ls = <<>> THEN <<>>
  ELSE LET line == Strip(Head(ls))
       IN  IF line = <<>> THEN IndentLines(Tail(ls), level)
           ELSE <<Indented(line, level)>>
                  \o IndentLines(Tail(ls), NextLevel(line, level))

\* lines 71-94
Reindent(s) == Join(IndentLines(Split(CollapseSpaces(s)), 0))

(* ------------------------------------------------------------------ *)
(* The input files.                                                    *)
(* ------------------------------------------------------------------ *)
RECURSIVE Concats(_, _)
Concats(chunks, n) ==
  IF n = 0 THEN {<<>>}
  ELSE LET shorter == Concats(chunks, n - 1)
       IN  shorter \cup {s \o c : s \in shorter, c \in chunks}

RECURSIVE LineSeqs(_, _)
LineSeqs(ls, n) ==
  IF n = 0 THEN {<<>>}
  ELSE LET shorter == LineSeqs(ls, n - 1)
       IN  shorter \cup {Append(s, l) : s \in shorter, l \in ls}

AmpChunks == { <<"&">>, <<"a", "m", "p", ";">>, <<"a", "m">>, <<"F">> }

TagChunks ==
  { <<"<", "d", "i", "v", ">">>, <<"<", "/", "d", "i", "v", ">">>, <<"<", "a", " ", "h", ">">>, <<"<", "/", "a", ">">>, <<"<", "s", "v", "g", ">", "<", "/", "s", "v", "g", ">">>,
    <<"<", "b", "u", "t", "t", "o", "n", ">", "<", "/", "b", "u", "t", "t", "o", "n", ">">>, <<" ", " ">>, <<"x">> }

LineChunks ==
  { <<"<", "d", "i", "v", ">">>, <<"<", "/", "d", "i", "v", ">">>, <<"<", "p", "a", "t", "h", " ", "d", "=", "\"", "M", "0", " ", "0", "\"", "/", ">">>, <<"<", "p", "/", ">">>, <<"<", "b", "r", ">">>,
    <<"<", "b", " ", "i", "d", "=", "\"", "h", "r", "\"", ">">>, <<"\t", "t", "e", "x", "t", " ">>, <<" ">> }

Scenarios ==
  { <<"&", "a", "m", "p", ";", "a", "m", "p", ";", "a", "m", "p", ";", "F", "o", "o">>,
    <<">", "<", "/", "d", "i", "v", ">", "<", "/", "d", "i", "v", ">", "<", "/", "d", "i", "v", ">">>,
    <<"<", "d", "i", "v", ">", "<", "a", " ", "h", "r", "e", "f", "=", "\"", "x", "\"", ">", "L", "i", "n", "k", "<", "/", "a", ">", "<", "/", "d", "i", "v", ">">> }

Inputs ==
  Concats(AmpChunks, MaxAmpChunks)
    \cup Concats(TagChunks, MaxTagChunks)
    \cup {Join(ls) : ls \in LineSeqs(LineChunks, MaxLines)}
    \cup Scenarios

(* ------------------------------------------------------------------ *)
(* The state of one run of fix_html_file.                              *)
(* ------------------------------------------------------------------ *)
VARIABLES
  input_text,      \* the text of input_file (lines 16-17)
  content,
  old_content,
  counts,          \* div_open .. button_close
  console,         \* the tag-validation marks printed
  lines,
  idx,             \* the position of the for loop in lines
  indented_lines,
  indent_level,
  output_text,     \* what output_file holds: [written, text]
  pc

vars ==
  << input_text, content, old_content, counts, console, lines, idx,
     indented_lines, indent_level, output_text, pc >>

NoCounts ==
  [ div_open |-> 0, div_close |-> 0, a_open |-> 0, a_close |-> 0,
    svg_open |-> 0, svg_close |-> 0, button_open |-> 0, button_close |-> 0 ]

Init ==
  /\ input_text \in Inputs
  /\ content = input_text
  /\ old_content = <<>>
  /\ counts = NoCounts
  /\ console = <<>>
  /\ lines = <<>>
  /\ idx = 1
  /\ indented_lines = <<>>
  /\ indent_level = 0
  /\ output_text = [written |-> FALSE, text |-> <<>>]
  /\ pc = "while"

\* line 26: the loop condition
WhileTest ==
  /\ pc = "while"
  /\ pc' = IF Contains(content, AmpAmp) THEN "body" ELSE "final"
  /\ UNCHANGED << input_text, content, old_content, counts, console, lines,
                  idx, indented_lines, indent_level, output_text >>

\* lines 27-30: one pass of the loop body
LoopBody ==
  /\ pc = "body"
  /\ old_content' = content
  /\ content' = CollapseAmp(content)
  /\ pc' = IF content' = old_content' THEN "final" ELSE "while"
  /\ UNCHANGED << input_text, counts, console, lines, idx, indented_lines,
                  indent_level, output_text >>

\* line 33
FinalCleanup ==
  /\ pc = "final"
  /\ content' = FinalAmp(content)
  /\ pc' = "breaks"
  /\ UNCHANGED << input_text, old_content, counts, console, lines, idx,
                  indented_lines, indent_level, output_text >>

\* lines 39-46
AddLineBreaks ==
  /\ pc = "breaks"
  /\ content' = LineBreaks(content)
  /\ pc' = "validate"
  /\ UNCHANGED << input_text, old_content, counts, console, lines, idx,
                  indented_lines, indent_level, output_text >>

\* Faulty variant of lines 52-65: a mismatch ends the run before the write.
Validate_abortsOnMismatch ==
  /\ pc = "validate"
  /\ counts' = TagCounts(content)
  /\ console' = TagReport(counts')
  /\ pc' = IF \A k \in 1..4 : console'[k] THEN "cleanup" ELSE "done"
  /\ UNCHANGED << input_text, content, old_content, lines, idx,
                  indented_lines, indent_level, output_text >>

\* lines 52-65
Validate ==
  /\ pc = "validate"
  /\ counts' = TagCounts(content)
  /\ console' = TagReport(counts')
  /\ pc' = "cleanup"
  /\ UNCHANGED << input_text, content, old_content, lines, idx,
                  indented_lines, indent_level, output_text >>

\* lines 71-76
Cleanup ==
  /\ pc = "cleanup"
  /\ content' = CollapseSpaces(content)
  /\ lines' = Split(content')
  /\ indented_lines' = <<>>
  /\ indent_level' = 0
  /\ idx' = 1
  /\ pc' = "for"
  /\ UNCHANGED << input_text, old_content, counts, console, output_text >>

\* lines 78-92: one iteration of the for loop
ForLine ==
  /\ pc = "for"
  /\ idx <= Len(lines)
  /\ LET line == Strip(lines[idx])
     IN  IF line = <<>>
         THEN UNCHANGED << indented_lines, indent_level >>
         ELSE /\ indented_lines' = Append(indented_lines, Indented(line, indent_level))
              /\ indent_level' = NextLevel(line, indent_level)
  /\ idx' = idx + 1
  /\ UNCHANGED << input_text, content, old_content, counts, console, lines,
                  output_text, pc >>

\* line 94, once the for loop is exhausted
JoinLines ==
  /\ pc = "for"
  /\ idx > Len(lines)
  /\ content' = Join(indented_lines)
  /\ pc' = "write"
  /\ UNCHANGED << input_text, old_content, counts, console, lines, idx,
                  indented_lines, indent_level, output_text >>

\* lines 99-100
WriteOutput ==
  /\ pc = "write"
  /\ output_text' = [written |-> TRUE, text |-> content]
  /\ pc' = "done"
  /\ UNCHANGED << input_text, content, old_content, counts, console, lines,
                  idx, indented_lines, indent_level >>

Next ==
  \/ WhileTest
  \/ LoopBody
  \/ FinalCleanup
  \/ AddLineBreaks
  \/ Validate
  \/ Cleanup
  \/ ForLine
  \/ JoinLines
  \/ WriteOutput

Spec == Init /\ [][Next]_vars

\* The script is sequential and nothing suspends it: a statement of the
\* while loop that is reached is executed.  Termination of the loop needs
\* no assumption about the statements after it.
FairSpec == Spec /\ WF_vars(WhileTest) /\ WF_vars(LoopBody)

(* ------------------------------------------------------------------ *)
(* Properties.                                                         *)
(* ------------------------------------------------------------------ *)
ScenarioAmp == <<"&", "a", "m", "p", ";", "a", "m", "p", ";", "a", "m", "p", ";", "F", "o", "o">>
ScenarioClosings == <<">", "<", "/", "d", "i", "v", ">", "<", "/", "d", "i", "v", ">", "<", "/", "d", "i", "v", ">">>
ScenarioLink == <<"<", "d", "i", "v", ">", "<", "a", " ", "h", "r", "e", "f", "=", "\"", "x", "\"", ">", "L", "i", "n", "k", "<", "/", "a", ">", "<", "/", "d", "i", "v", ">">>

\* s without the run of 'amp;' it starts with
RECURSIVE SkipAmpRun(_)
SkipAmpRun(s) ==
  IF StartsWith(s, <<"a", "m", "p", ";">>) THEN SkipAmpRun(Drop(s, 4)) ELSE s

\* s with, after each '&', the maximal run of 'amp;' deleted
RECURSIVE DeleteAmpRuns(_)
DeleteAmpRuns(s) ==
  IF s = <<>> THEN <<>>
  ELSE IF Head(s) = "&" THEN <<"&">> \o DeleteAmpRuns(SkipAmpRun(Tail(s)))
  ELSE <<Head(s)>> \o DeleteAmpRuns(Tail(s))

\* s without its whitespace characters
RECURSIVE NoWhitespace(_)
NoWhitespace(s) ==
  IF s = <<>> THEN <<>>
  ELSE IF Head(s) \in Whitespace THEN NoWhitespace(Tail(s))
  ELSE <<Head(s)>> \o NoWhitespace(Tail(s))

\* C1: once the loop and the final replacement have run, the content is the
\* input with the maximal run of 'amp;' after each '&' deleted and nothing
\* else changed; it holds no '&amp;', and an input without '&amp;' is
\* unchanged.
C1_UnescapeDeletesAmpRuns ==
  pc = "breaks" =>
    /\ content = DeleteAmpRuns(input_text)
    /\ ~Contains(content, Amp)
    /\ (~Contains(input_text, Amp) => content = input_text)

C1_Witness ==
  pc = "breaks" /\ input_text = ScenarioAmp /\ content = <<"&", "F", "o", "o">>

\* C2 (as claimed): after the eight substitutions the content holds none of
\* the eight adjacency patterns.
C2_NoAdjacencyLeft ==
  pc = "validate" =>
    \A k \in 1..Len(BreakRules) : ~Contains(content, BreakRules[k][1])

\* C3 (as claimed): the scenario input is written as '<div>', the link line
\* indented by two spaces, and '</div>' without indentation.
C3_ScenarioOutput ==
  (pc = "done" /\ input_text = ScenarioLink) =>
    output_text.text = <<"<", "d", "i", "v", ">", "\n", " ", " ", "<", "a", " ", "h", "r", "e", "f", "=", "\"", "x", "\"", ">", "L", "i", "n", "k", "<", "/", "a", ">", "\n", "<", "/", "d", "i", "v", ">">>

\* The depth a line is emitted at, written out from the closing-tag rule.
DepthAtEmit(line, level) ==
  IF StartsWith(line, <<"<", "/">>) THEN (IF level > 0 THEN level - 1 ELSE 0) ELSE level

\* The for loop is about to process a line that is not empty once stripped.
AtLine == pc = "for" /\ idx <= Len(lines) /\ Strip(lines[idx]) # <<>>

\* C4 (as claimed): the depth is incremented after a non-empty line exactly
\* when the line starts with '<', not with '</', does not end with '/>' and
\* holds none of the names path, svg, input, img, br, hr anywhere.
C4_IncrementOnBareNames ==
  [][AtLine =>
      LET line == Strip(lines[idx])
          d == DepthAtEmit(line, indent_level)
      IN  /\ indent_level' \in {d, d + 1}
          /\ indent_level' = d + 1 <=>
               /\ StartsWith(line, <<"<">>)
               /\ ~StartsWith(line, <<"<", "/">>)
               /\ ~EndsWith(line, <<"/", ">">>)
               /\ ~Contains(line, <<"p", "a", "t", "h">>)
               /\ ~Contains(line, <<"s", "v", "g">>)
               /\ ~Contains(line, <<"i", "n", "p", "u", "t">>)
               /\ ~Contains(line, <<"i", "m", "g">>)
               /\ ~Contains(line, <<"b", "r">>)
               /\ ~Contains(line, <<"h", "r">>)]_vars

\* C4 (amended): the depth is incremented after a non-empty line exactly
\* when the line starts with '<', not with '</', does not end with '/>' and
\* holds none of '<path', '<svg', '<input', '<img', '<br', '<hr' anywhere.
C4_IncrementOnTagMarkers ==
  [][AtLine =>
      LET line == Strip(lines[idx])
          d == DepthAtEmit(line, indent_level)
      IN  /\ indent_level' \in {d, d + 1}
          /\ indent_level' = d + 1 <=>
               /\ StartsWith(line, <<"<">>)
               /\ ~StartsWith(line, <<"<", "/">>)
               /\ ~EndsWith(line, <<"/", ">">>)
               /\ ~Contains(line, <<"<", "p", "a", "t", "h">>)
               /\ ~Contains(line, <<"<", "s", "v", "g">>)
               /\ ~Contains(line, <<"<", "i", "n", "p", "u", "t">>)
               /\ ~Contains(line, <<"<", "i", "m", "g">>)
               /\ ~Contains(line, <<"<", "b", "r">>)
               /\ ~Contains(line, <<"<", "h", "r">>)]_vars

\* A line naming 'hr' only in an attribute value has raised the depth.
C4_Witness ==
  /\ pc = "for"
  /\ idx = 2
  /\ Strip(lines[1]) = <<"<", "b", " ", "i", "d", "=", "\"", "h", "r", "\"", ">">>
  /\ indent_level = 1

\* C5: line-break insertion and space collapsing change whitespace only:
\* without its whitespace the content after either pass is the content
\* before the substitutions without its whitespace.
C5_OnlyWhitespaceChanges ==
  pc \in {"validate", "cleanup", "for"} =>
    NoWhitespace(content) = NoWhitespace(Unescape(input_text))

\* A newline was inserted and a run of spaces was collapsed.
C5_Witness ==
  /\ pc = "for"
  /\ Len(lines) > 1
  /\ ~Contains(input_text, <<NL>>)
  /\ Contains(input_text, <<" ", " ">>)
  /\ ~Contains(content, <<" ", " ">>)

\* C6: the unescape pass is idempotent: the content it leaves is its result
\* on the input, and applying the pass to that result gives the same string.
C6_UnescapeIdempotent ==
  pc = "breaks" =>
    /\ content = Unescape(input_text)
    /\ Unescape(Unescape(input_text)) = Unescape(input_text)

\* The pass has changed the input, by more than one level of escaping.
C6_Witness ==
  /\ pc = "breaks"
  /\ Contains(input_text, AmpAmp)
  /\ content # input_text
  /\ Unescape(content) = content

\* C7: the depth is never negative, and every emitted line is the stripped
\* line after exactly two spaces per depth, the depth being taken after the
\* closing-tag decrement (floored at 0) and before the increment.
C7_DepthNeverNegative ==
  /\ [](indent_level >= 0)
  /\ [][AtLine =>
         LET line == Strip(lines[idx])
             d == DepthAtEmit(line, indent_level)
         IN  /\ d >= 0
             /\ indented_lines' = Append(indented_lines, Repeat(<<SP>>, 2 * d) \o line)
             /\ indent_level' >= d]_vars

\* A closing tag met at depth 0 was emitted without indentation.
C7_Witness ==
  /\ pc = "for"
  /\ idx = 2
  /\ indented_lines = << <<"<", "/", "d", "i", "v", ">">> >>
  /\ indent_level = 0

\* C8: a line that ends with '/>' once stripped never raises the depth.
C8_SelfClosingNeverIncrements ==
  [][(AtLine /\ EndsWith(Strip(lines[idx]), <<"/", ">">>)) =>
       indent_level' <= indent_level]_vars

\* The scenario line was processed inside an open element.
C8_Witness ==
  /\ pc = "for"
  /\ idx = 3
  /\ Strip(lines[1]) = <<"<", "d", "i", "v", ">">>
  /\ Strip(lines[2]) = <<"<", "p", "a", "t", "h", " ", "d", "=", "\"", "M", "0", " ", "0", "\"", "/", ">">>
  /\ indent_level = 1

\* C9: counting and reporting leave the content and the output file alone
\* and always go on to the next pass, and what is written at the end is a
\* function of the input text only, whatever the counts.
C9_ReportIsSideChannel ==
  /\ [][pc = "validate" =>
          /\ content' = content
          /\ output_text' = output_text
          /\ pc' = "cleanup"]_vars
  /\ [](pc = "done" =>
          output_text =
            [written |-> TRUE,
             text |-> Reindent(LineBreaks(Unescape(input_text)))])

\* The output was written although the div counts differ.
C9_Witness ==
  /\ pc = "done"
  /\ output_text.written
  /\ counts.div_open # counts.div_close
  /\ ~console[1]

\* C10: every pass of the loop body shortens the content by 4 characters
\* per occurrence replaced and returns to the loop condition (the break is
\* not taken), the loop is left only with no '&amp;amp;' in the content,
\* and it is left eventually.
C10_LoopTerminates ==
  /\ [][pc = "body" =>
          /\ Count(content, AmpAmp) > 0
          /\ Len(content') = Len(content) - 4 * Count(content, AmpAmp)
          /\ content' # old_content'
          /\ pc' = "while"]_vars
  /\ [][(pc \in {"while", "body"} /\ pc' = "final") =>
          (pc = "while" /\ ~Contains(content', AmpAmp))]_vars
  /\ <>(pc = "final" /\ ~Contains(content, AmpAmp))

\* The loop ended after two passes of its body.
C10_Witness ==
  /\ pc = "final"
  /\ input_text = ScenarioAmp
  /\ old_content = <<"&", "a", "m", "p", ";", "a", "m", "p", ";", "F", "o", "o">>
  /\ content = <<"&", "a", "m", "p", ";", "F", "o", "o">>

====
